---- MODULE Spec2Model ----
(***************************************************************************)
(* Model of src/facility_map.py: the facility_map skill.  One invocation   *)
(* is a run of the state machine below: the query is built from the        *)
(* filters, fetched once from the external data source, the rows are       *)
(* classified, grouped, tabulated, rendered by the external layout engine  *)
(* and summarised.  pc is the position of the invocation in the function.  *)
(***************************************************************************)
EXTENDS Integers, Sequences, FiniteSets, TLC

VARIABLES
    pc,               \* position in facility_map, "done" = returned, "raised" = exception left the function
    filters,          \* parameters.arguments.other_filters or []
    color_by,         \* parameters.arguments.color_by or "building_use"
    sql_query,        \* the clauses appended to the base SELECT, in order
    fetchCount,       \* calls of client.data.execute_sql_query made so far
    fetched,          \* how the try block of lines 75-84 ended, "" before it ran
    df,               \* the fetched rows, in fetch order
    map_points,       \* one point per row (lines 130-147)
    series_by_color,  \* insertion-ordered dict use -> series, as a sequence
    map_series_data,  \* the mappoint series of the chart configuration
    table_rows,       \* one display row per row of df
    layout_rows,      \* the TD_* groups appended to the layout, one per table row
    html,             \* rendered markup or the inline error notice
    use_counts,       \* df['BUILDING_USE'].value_counts() as an ordered sequence
    output,           \* the SkillOutput returned
    raised            \* the exception that left the function, "" when none

vars == <<pc, filters, color_by, sql_query, fetchCount, fetched, df, map_points,
          series_by_color, map_series_data, table_rows, layout_rows, html, use_counts, output, raised>>

---------------------------------------------------------------------------
(* Bounds of the model. *)
MaxFilters == 3
MaxRows == 3

---------------------------------------------------------------------------
(* Python values.  A value is a record whose only field names its type, so *)
(* that values of different types can be compared.                         *)
Str(s) == [str |-> s]
Num(n) == [num |-> n]
List(l) == [list |-> l]
Dict(d) == [dict |-> d]
Null == [null |-> TRUE]

IsStr(v) == "str" \in DOMAIN v
IsNum(v) == "num" \in DOMAIN v
IsList(v) == "list" \in DOMAIN v
IsDict(v) == "dict" \in DOMAIN v

\* pd.notna(v): false for None and NaN
pd_notna(v) == "null" \notin DOMAIN v

\* str(v): the text of a value.  A missing cell prints as "None" (None) or
\* "nan" (NaN); both are modelled by "None", neither is a palette key in
\* either case.
PyStr(v) ==
    IF IsStr(v) THEN v.str
    ELSE IF IsNum(v) THEN ToString(v.num)
    ELSE "None"

\* s.upper() on the strings of the model
Upper(s) ==
    CASE s = "acute" -> "ACUTE"
      [] s = "Admin" -> "ADMIN"
      [] s = "ma" -> "MA"
      [] s = "nh" -> "NH"
      [] s = "Lease" -> "LEASE"
      [] s = "Single Story" -> "SINGLE STORY"
      [] s = "Boston" -> "BOSTON"
      [] s = "Nashua" -> "NASHUA"
      [] s = "Concord" -> "CONCORD"
      [] s = "Burlington" -> "BURLINGTON"
      [] s = "None" -> "NONE"
      [] s = "default" -> "DEFAULT"
      [] s = "building_use" -> "BUILDING_USE"
      [] s = "own_lease" -> "OWN_LEASE"
      [] s = "building_type" -> "BUILDING_TYPE"
      [] s = "state" -> "STATE"
      [] s = "city" -> "CITY"
      [] s = "region" -> "REGION"
      [] OTHER -> s

\* sep.join(parts)
RECURSIVE Join(_, _)
Join(parts, sep) ==
    IF Len(parts) = 0 THEN ""
    ELSE IF Len(parts) = 1 THEN parts[1]
    ELSE parts[1] \o sep \o Join(Tail(parts), sep)

---------------------------------------------------------------------------
(* Query builder, lines 65-73. *)

\* the filter items the invocations are drawn from
FilterItems ==
    { Dict([dim |-> "state", val |-> List(<<Str("ma"), Str("NH")>>)]),
      Dict([dim |-> "building_use", val |-> List(<<Str("acute")>>)]),
      Dict([dim |-> "own_lease", val |-> List(<<>>)]),
      Dict([dim |-> "state", val |-> Str("MA")]),
      Dict([dim |-> "state"]),
      Dict([val |-> List(<<Str("MA")>>)]),
      Str("state=MA") }

FilterLists == UNION { [1..n -> FilterItems] : n \in 0..MaxFilters }

\* "', '".join(str(v).upper() for v in values)
ValuesStr(values) ==
    Join([i \in 1..Len(values) |-> Upper(PyStr(values[i]))], "', '")

\* line 73: the clause appended for one filter, with its text
Clause(dim, values) ==
    [dim |-> dim, values_str |-> ValuesStr(values),
     text |-> " AND UPPER(" \o dim \o ") IN ('" \o ValuesStr(values) \o "')"]

\* lines 68-73: the body of the loop for one filter_item, the query after it
AddFilter(query, filter_item) ==
    IF IsDict(filter_item)
       /\ "dim" \in DOMAIN filter_item.dict
       /\ "val" \in DOMAIN filter_item.dict
    THEN IF IsList(filter_item.dict.val)
         THEN Append(query, Clause(filter_item.dict.dim, filter_item.dict.val.list))
         ELSE query
    ELSE query

RECURSIVE BuildQuery(_, _)
BuildQuery(query, items) ==
    IF Len(items) = 0 THEN query
    ELSE BuildQuery(AddFilter(query, Head(items)), Tail(items))

---------------------------------------------------------------------------
(* The rows the data source may return.  A row has the columns of the      *)
(* SELECT of lines 48-63 that the function reads.                          *)

Row(name, type, use, city, state, lat, lon, own, sqft) ==
    "BUILDING_NAME" :> name @@ "BUILDING_TYPE" :> type @@ "BUILDING_USE" :> use @@
    "CITY" :> city @@ "STATE" :> state @@ "FULL_ADDRESS" :> city @@
    "LATITUDE" :> lat @@ "LONGITUDE" :> lon @@ "OWN_LEASE" :> own @@
    "SQUARE_FEET" :> sqft

Records ==
    { Row(Str("Main Hospital"), Str("MULTI STORY"), Str("ACUTE"), Str("Boston"),
          Str("MA"), Num(42), Num(-71), Str("OWN"), Num(1234567)),
      Row(Str("Nashua Office"), Str("Single Story"), Str("Admin"), Str("Nashua"),
          Str("nh"), Num(43), Num(-72), Str("Lease"), Null),
      Row(Str("Concord Annex"), Str("SINGLE STORY"), Str("ACUTE"), Str("Concord"),
          Str("NH"), Num(44), Num(-72), Str("OWN - CONDO"), Num(950)),
      Row(Str("Burlington Lab"), Str("CAMPUS"), Str("RESEARCH"), Str("Burlington"),
          Str("VT"), Num(45), Num(-73), Str("SUBLEASE"), Num(12000)),
      Row(Str("West Wing"), Str("MULTI STORY"), Str("acute"), Str("Boston"),
          Str("ma"), Num(42), Num(-71), Str("OWN"), Num(12345)),
      Row(Str("Storage"), Null, Null, Null,
          Null, Num(41), Num(-70), Null, Num(0)),
      Row(Str("Unlocated"), Str("MULTI STORY"), Str("AMBULATORY"), Str("Boston"),
          Str("MA"), Str(""), Str(""), Str("OWN"), Num(12345)) }

RowLists == UNION { [1..n -> Records] : n \in 0..MaxRows }

\* row.get(col, default) and dict.get(key, default)
DictGet(d, key, default) == IF key \in DOMAIN d THEN d[key] ELSE default

\* float(v) raises ValueError on a non-numeric string and TypeError on None
FloatRaises(v) == ~IsNum(v)
FloatError(v) == IF IsStr(v) THEN "ValueError" ELSE "TypeError"

---------------------------------------------------------------------------
(* Color classifier, lines 101-133. *)

DefaultColor == "#6b7280"

color_maps ==
    ( "building_use" :>
        ( "AMBULATORY" :> "#3b82f6" @@ "ADMIN" :> "#10b981" @@
          "ACUTE" :> "#ef4444" @@ "default" :> "#6b7280" ) ) @@
    ( "own_lease" :>
        ( "OWN" :> "#3b82f6" @@ "LEASE" :> "#f59e0b" @@
          "OWN - CONDO" :> "#10b981" @@ "default" :> "#6b7280" ) ) @@
    ( "building_type" :>
        ( "MULTI STORY" :> "#3b82f6" @@ "SINGLE STORY" :> "#10b981" @@
          "default" :> "#6b7280" ) ) @@
    ( "state" :>
        ( "MA" :> "#3b82f6" @@ "NH" :> "#10b981" @@ "default" :> "#6b7280" ) )

\* the values of the color_by argument; "" stands for an absent argument
ColorByArgs ==
    { "building_use", "own_lease", "building_type", "state", "city", "region", "" }

\* line 127
Colors(cb) == DictGet(color_maps, cb, color_maps["building_use"])

\* ColorValue without the upper-casing of the value
ColorValueNoUpper(row, cb) == PyStr(DictGet(row, Upper(cb), Str("")))

\* line 132
ColorValue(row, cb) == Upper(PyStr(DictGet(row, Upper(cb), Str(""))))

\* line 133
MarkerColor(row, cb) ==
    DictGet(Colors(cb), ColorValue(row, cb),
            DictGet(Colors(cb), "default", DefaultColor))

\* lines 135-147
MapPoint(row, cb) ==
    [name |-> DictGet(row, "BUILDING_NAME", Str("Unknown")),
     lat |-> row["LATITUDE"].num,
     lon |-> row["LONGITUDE"].num,
     color |-> MarkerColor(row, cb),
     building_use |-> DictGet(row, "BUILDING_USE", Str("")),
     building_type |-> DictGet(row, "BUILDING_TYPE", Str("")),
     city |-> DictGet(row, "CITY", Str("")),
     state |-> DictGet(row, "STATE", Str("")),
     address |-> DictGet(row, "FULL_ADDRESS", Str("")),
     own_lease |-> DictGet(row, "OWN_LEASE", Str("")),
     square_feet |-> DictGet(row, "SQUARE_FEET", Num(0))]

---------------------------------------------------------------------------
(* Point series aggregator, lines 156-211.  The dict series_by_color keeps *)
(* insertion order; it is a sequence of series, a series found by name.    *)

\* lines 167-178: the point appended to the data of a series
SeriesPoint(point) ==
    [x |-> point.lon, y |-> point.lat, z |-> 10, name |-> point.name,
     city |-> point.city, state |-> point.state,
     building_type |-> point.building_type,
     building_use |-> point.building_use,
     own_lease |-> point.own_lease, square_feet |-> point.square_feet]

HasKey(series, use) == \E k \in 1..Len(series) : series[k].name = use
KeyIndex(series, use) == CHOOSE k \in 1..Len(series) : series[k].name = use

\* AddPoint keyed by the marker color instead of the building use
AddPointByColor(series, point) ==
    LET has == \E k \in 1..Len(series) : series[k].color = point.color
        withKey == IF has THEN series
                   ELSE Append(series, [name |-> point.building_use,
                                        color |-> point.color, data |-> <<>>])
        idx == CHOOSE k \in 1..Len(withKey) : withKey[k].color = point.color
    IN  [withKey EXCEPT ![idx].data = Append(@, SeriesPoint(point))]

\* AddPoint with every point overwriting the color of its series
AddPointLastColor(series, point) ==
    LET use == point.building_use
        withKey == IF HasKey(series, use) THEN series
                   ELSE Append(series, [name |-> use, color |-> point.color,
                                        data |-> <<>>])
        idx == KeyIndex(withKey, use)
    IN  [withKey EXCEPT ![idx].data = Append(@, SeriesPoint(point)),
                        ![idx].color = point.color]

\* lines 159-178: the body of the loop for one point
AddPoint(series, point) ==
    LET use == point.building_use
        withKey == IF HasKey(series, use) THEN series
                   ELSE Append(series, [name |-> use, color |-> point.color,
                                        data |-> <<>>])
    IN  [withKey EXCEPT ![KeyIndex(withKey, use)].data =
                            Append(@, SeriesPoint(point))]

RECURSIVE GroupPoints(_, _)
GroupPoints(series, points) ==
    IF Len(points) = 0 THEN series
    ELSE GroupPoints(AddPoint(series, Head(points)), Tail(points))

\* lines 188-211: the mappoint series handed to the chart
MapSeries(s) ==
    [type |-> "mappoint", name |-> s.name, color |-> s.color,
     data |-> [i \in 1..Len(s.data) |->
                 [name |-> s.data[i].name, lat |-> s.data[i].y,
                  lon |-> s.data[i].x, city |-> s.data[i].city,
                  state |-> s.data[i].state,
                  building_type |-> s.data[i].building_type,
                  building_use |-> s.data[i].building_use,
                  own_lease |-> s.data[i].own_lease,
                  square_feet |-> s.data[i].square_feet]]]

MapSeriesData(series) == [k \in 1..Len(series) |-> MapSeries(series[k])]

---------------------------------------------------------------------------
(* Table builder, lines 274-287, and the rows of the layout, 389-401. *)

Pad3(k) ==
    IF k < 10 THEN "00" \o ToString(k)
    ELSE IF k < 100 THEN "0" \o ToString(k)
    ELSE ToString(k)

\* FormatThousands without the zero padding of the groups
RECURSIVE FormatThousandsNoPad(_)
FormatThousandsNoPad(n) ==
    IF n < 1000 THEN ToString(n)
    ELSE FormatThousandsNoPad(n \div 1000) \o "," \o ToString(n % 1000)

\* f"{n:,.0f}" of a non-negative whole number
RECURSIVE FormatThousands(_)
FormatThousands(n) ==
    IF n < 1000 THEN ToString(n)
    ELSE FormatThousands(n \div 1000) \o "," \o Pad3(n % 1000)

\* line 278
SqFtStr(sq_ft) == IF pd_notna(sq_ft) THEN FormatThousands(sq_ft.num) ELSE "N/A"

\* lines 277-287
TableRow(row) ==
    [name |-> DictGet(row, "BUILDING_NAME", Str("")),
     city |-> DictGet(row, "CITY", Str("")),
     state |-> DictGet(row, "STATE", Str("")),
     type |-> DictGet(row, "BUILDING_TYPE", Str("")),
     use |-> DictGet(row, "BUILDING_USE", Str("")),
     ownership |-> DictGet(row, "OWN_LEASE", Str("")),
     sq_ft |-> SqFtStr(DictGet(row, "SQUARE_FEET", Num(0)))]

\* line 391, i counted from 0
BgColor(i) == IF i % 2 = 0 THEN "#ffffff" ELSE "#f8fafc"

\* lines 393-401: the seven TD_* paragraphs of row i share one background
LayoutRow(i, row) ==
    [name |-> "TD_Name_" \o ToString(i), backgroundColor |-> BgColor(i),
     cells |-> row]

---------------------------------------------------------------------------
(* Summary composer, lines 416-421. *)

RECURSIVE FirstSeen(_, _)
\* the distinct non-null values of a column, in order of first appearance
FirstSeen(seen, values) ==
    IF Len(values) = 0 THEN seen
    ELSE LET v == Head(values)
         IN  IF ~pd_notna(v) \/ (\E k \in 1..Len(seen) : seen[k] = v)
             THEN FirstSeen(seen, Tail(values))
             ELSE FirstSeen(Append(seen, v), Tail(values))

CountOf(values, v) == Cardinality({i \in 1..Len(values) : values[i] = v})

\* insert e behind every entry whose count is not smaller
InsertByCount(sorted, e) ==
    LET n == Cardinality({k \in 1..Len(sorted) : sorted[k].count >= e.count})
    IN  SubSeq(sorted, 1, n) \o <<e>> \o SubSeq(sorted, n + 1, Len(sorted))

RECURSIVE SortByCount(_, _)
SortByCount(sorted, entries) ==
    IF Len(entries) = 0 THEN sorted
    ELSE SortByCount(InsertByCount(sorted, Head(entries)), Tail(entries))

\* Series.value_counts(): missing values are dropped (dropna=True), the
\* rest is tallied and ordered by descending count, ties in first-seen order
ValueCounts(values) ==
    LET seen == FirstSeen(<<>>, values)
    IN  SortByCount(<<>>, [k \in 1..Len(seen) |->
                            [use |-> seen[k], count |-> CountOf(values, seen[k])]])

\* line 420
UseSummary(counts) ==
    Join([k \in 1..Len(counts) |->
            ToString(counts[k].count) \o " " \o PyStr(counts[k].use)], ", ")

\* lines 417-421
Summary(rows, counts) ==
    LET head == "Showing " \o ToString(Len(rows)) \o " facilities on the map. "
    IN  IF \A i \in 1..Len(rows) : "BUILDING_USE" \in DOMAIN rows[i]
        THEN head \o "By use: " \o UseSummary(counts) \o "."
        ELSE head

---------------------------------------------------------------------------
(* The result objects. *)

\* what wire_layout returns when it returns (the engine is external)
RenderedMarkup == "<html>rendered layout</html>"

\* the exceptions wire_layout may raise
RenderErrors == {"malformed layout"}

\* line 414
ErrorNotice(e) == "<div>Error rendering layout: " \o e \o "</div>"

SkillOutput(final_prompt, narrative, visualizations) ==
    [final_prompt |-> final_prompt, narrative |-> narrative,
     visualizations |-> visualizations]

SkillVisualization(title, layout) == [title |-> title, layout |-> layout]

\* FailureOutput with summary and narrative exchanged
FailureOutputSwapped ==
    SkillOutput("Error loading facility data.",
                Str("Failed to retrieve facility data."), <<>>)

\* lines 88-92
FailureOutput ==
    SkillOutput("Failed to retrieve facility data.",
                Str("Error loading facility data."), <<>>)

\* EmptyOutput with summary and narrative exchanged
EmptyOutputSwapped ==
    SkillOutput("No facility data available.",
                Str("No facilities found matching the criteria."), <<>>)

\* lines 95-99
EmptyOutput ==
    SkillOutput("No facilities found matching the criteria.",
                Str("No facility data available."), <<>>)

\* MapOutput giving up on the response when the rendering failed
MapOutputDropsFailedRender(summary, markup) ==
    IF markup = RenderedMarkup
    THEN SkillOutput(summary, Null, <<SkillVisualization("Facility Map", markup)>>)
    ELSE SkillOutput("Failed to render the facility map.", Null, <<>>)

\* lines 423-429
MapOutput(summary, markup) ==
    SkillOutput(summary, Null, <<SkillVisualization("Facility Map", markup)>>)

---------------------------------------------------------------------------
(* The invocation. *)

NoOutput == SkillOutput("", Null, <<>>)

\* the locals before the function has assigned them
Fresh ==
    /\ pc = "start"
    /\ sql_query = <<>>
    /\ fetchCount = 0
    /\ fetched = ""
    /\ df = <<>>
    /\ map_points = <<>>
    /\ series_by_color = <<>>
    /\ map_series_data = <<>>
    /\ table_rows = <<>>
    /\ layout_rows = <<>>
    /\ html = ""
    /\ use_counts = <<>>
    /\ output = NoOutput
    /\ raised = ""

\* line 45
ColorByOrDefault(arg) == IF arg = "" THEN "building_use" ELSE arg

\* the filter lists of the invocations of Spec
SampleFilters ==
    { <<>>,
      << Dict([dim |-> "state", val |-> List(<<Str("ma"), Str("NH")>>)]),
         Dict([dim |-> "state", val |-> Str("MA")]) >> }

Init ==
    /\ filters \in SampleFilters
    /\ color_by \in { ColorByOrDefault(arg) : arg \in ColorByArgs }
    /\ Fresh

\* lines 65-73
AddFilters ==
    /\ pc = "start"
    /\ sql_query' = BuildQuery(<<>>, filters)
    /\ pc' = "fetch"
    /\ UNCHANGED <<filters, color_by, fetchCount, fetched, df, map_points, series_by_color,
                   map_series_data, table_rows, layout_rows, html, use_counts,
                   output, raised>>

\* how the try block of lines 75-84 can fail: the client constructor raises,
\* the query call raises, the result reports failure, the result has no df
FetchFailures == {"client_raises", "execute_raises", "not_success", "no_df"}

\* lines 75-92, the except branch
FetchFails ==
    /\ pc = "fetch"
    /\ \E failure \in FetchFailures :
          /\ fetched' = failure
          /\ fetchCount' = IF failure = "client_raises" THEN fetchCount
                           ELSE fetchCount + 1
    /\ output' = FailureOutput
    /\ pc' = "done"
    /\ UNCHANGED <<filters, color_by, sql_query, df, map_points, series_by_color,
                   map_series_data, table_rows, layout_rows, html, use_counts,
                   raised>>

\* lines 75-84 and 94-99: the query returns rows
FetchSucceeds ==
    /\ pc = "fetch"
    /\ fetchCount' = fetchCount + 1
    /\ fetched' = "rows"
    /\ \E rows \in RowLists :
          /\ df' = rows
          /\ IF Len(rows) = 0
             THEN output' = EmptyOutput /\ pc' = "done"
             ELSE output' = output /\ pc' = "points"
    /\ UNCHANGED <<filters, color_by, sql_query, map_points, series_by_color,
                   map_series_data, table_rows, layout_rows, html, use_counts,
                   raised>>

\* the first row whose LATITUDE or LONGITUDE float() rejects, 0 when none
FirstBadRow(rows) ==
    LET bad == {i \in 1..Len(rows) : FloatRaises(rows[i]["LATITUDE"])
                                     \/ FloatRaises(rows[i]["LONGITUDE"])}
    IN  IF bad = {} THEN 0 ELSE CHOOSE i \in bad : \A j \in bad : i <= j

\* lines 130-147; float() of lines 137-138 is outside every try block
BuildMapPoints ==
    /\ pc = "points"
    /\ LET b == FirstBadRow(df)
       IN  IF b = 0
           THEN /\ map_points' = [i \in 1..Len(df) |-> MapPoint(df[i], color_by)]
                /\ pc' = "series"
                /\ raised' = raised
           ELSE /\ map_points' = map_points
                /\ pc' = "raised"
                /\ raised' = IF FloatRaises(df[b]["LATITUDE"])
                              THEN FloatError(df[b]["LATITUDE"])
                              ELSE FloatError(df[b]["LONGITUDE"])
    /\ UNCHANGED <<filters, color_by, sql_query, fetchCount, fetched, df, series_by_color,
                   map_series_data, table_rows, layout_rows, html, use_counts,
                   output>>

\* lines 156-211
GroupSeries ==
    /\ pc = "series"
    /\ series_by_color' = GroupPoints(<<>>, map_points)
    /\ map_series_data' = MapSeriesData(series_by_color')
    /\ pc' = "table"
    /\ UNCHANGED <<filters, color_by, sql_query, fetchCount, fetched, df, map_points,
                   table_rows, layout_rows, html, use_counts, output, raised>>

\* lines 274-287 and 389-401
BuildTable ==
    /\ pc = "table"
    /\ table_rows' = [i \in 1..Len(df) |-> TableRow(df[i])]
    /\ layout_rows' = [i \in 1..Len(df) |-> LayoutRow(i - 1, table_rows'[i])]
    /\ pc' = "render"
    /\ UNCHANGED <<filters, color_by, sql_query, fetchCount, fetched, df, map_points,
                   series_by_color, map_series_data, html, use_counts, output,
                   raised>>

\* lines 407-409: wire_layout returns
RenderSucceeds ==
    /\ pc = "render"
    /\ html' = RenderedMarkup
    /\ pc' = "summary"
    /\ UNCHANGED <<filters, color_by, sql_query, fetchCount, fetched, df, map_points,
                   series_by_color, map_series_data, table_rows, layout_rows,
                   use_counts, output, raised>>

\* lines 410-414: wire_layout raises
RenderFails ==
    /\ pc = "render"
    /\ \E e \in RenderErrors : html' = ErrorNotice(e)
    /\ pc' = "summary"
    /\ UNCHANGED <<filters, color_by, sql_query, fetchCount, fetched, df, map_points,
                   series_by_color, map_series_data, table_rows, layout_rows,
                   use_counts, output, raised>>

\* lines 416-429
Return ==
    /\ pc = "summary"
    /\ use_counts' = ValueCounts([i \in 1..Len(df) |-> df[i]["BUILDING_USE"]])
    /\ output' = MapOutput(Summary(df, use_counts'), html)
    /\ pc' = "done"
    /\ UNCHANGED <<filters, color_by, sql_query, fetchCount, fetched, df, map_points,
                   series_by_color, map_series_data, table_rows, layout_rows,
                   html, raised>>

Next ==
    \/ AddFilters
    \/ FetchFails
    \/ FetchSucceeds
    \/ BuildMapPoints
    \/ GroupSeries
    \/ BuildTable
    \/ RenderSucceeds
    \/ RenderFails
    \/ Return

Spec == Init /\ [][Next]_vars

(* The query builder alone, over every filter list up to MaxFilters. *)
InitQuery ==
    /\ filters \in FilterLists
    /\ color_by = "building_use"
    /\ Fresh

NextQuery == AddFilters

SpecQuery == InitQuery /\ [][NextQuery]_vars

---------------------------------------------------------------------------
(* Properties. *)

Returned == pc = "done"
RenderFailed == \E e \in RenderErrors : html = ErrorNotice(e)
Uses == [i \in 1..Len(df) |-> df[i]["BUILDING_USE"]]
IndicesOf(use) == {i \in 1..Len(df) : Uses[i] = use}
FirstIndexOf(use) == CHOOSE i \in IndicesOf(use) : \A j \in IndicesOf(use) : i <= j

\* C1: an invocation never ends in an exception leaving facility_map;
\* whatever the filters, color_by, the fetch outcome, the rows and the
\* rendering outcome, it ends in a returned SkillOutput.
C1_NeverRaises == pc # "raised" /\ raised = ""

\* C2: when the query call raises, reports failure or returns a result
\* without a table, the returned result has the fixed summary "Failed to
\* retrieve facility data." and no visualization, and the query was
\* executed exactly once.
C2_FetchFailure ==
    (Returned /\ fetched \in {"execute_raises", "not_success", "no_df"}) =>
        /\ output.final_prompt = "Failed to retrieve facility data."
        /\ output.visualizations = <<>>
        /\ fetchCount = 1

C2_Witness == Returned /\ fetched = "no_df" /\ fetchCount = 1

\* C3 as stated: when the fetch succeeds with zero rows the returned result
\* has no visualization and its final_prompt is "No facility data
\* available.".
C3_Original ==
    (Returned /\ fetched = "rows" /\ Len(df) = 0) =>
        /\ output.visualizations = <<>>
        /\ output.final_prompt = "No facility data available."

\* C3 amended: when the fetch succeeds with zero rows the returned result
\* has no visualization, its final_prompt is "No facilities found matching
\* the criteria." and "No facility data available." is its narrative.
C3_EmptyResult ==
    (Returned /\ fetched = "rows" /\ Len(df) = 0) =>
        /\ output.visualizations = <<>>
        /\ output.final_prompt = "No facilities found matching the criteria."
        /\ output.narrative = Str("No facility data available.")

C3_Witness == Returned /\ fetched = "rows" /\ Len(df) = 0 /\ fetchCount = 1

\* C4: when the fetch returned at least one row and wire_layout raised, the
\* returned result carries exactly one visualization whose content is the
\* inline error notice, and its summary is the summary of the fetched rows,
\* the one a successful rendering of the same rows returns.
C4_RenderFailure ==
    (Returned /\ fetched = "rows" /\ Len(df) > 0) =>
        /\ output.final_prompt = Summary(df, ValueCounts(Uses))
        /\ Len(output.visualizations) = 1
        /\ RenderFailed =>
              /\ output.visualizations[1].layout \in
                    {ErrorNotice(e) : e \in RenderErrors}
              /\ output.visualizations[1].layout # RenderedMarkup
        /\ ~RenderFailed => output.visualizations[1].layout = RenderedMarkup

C4_Witness ==
    /\ Returned /\ RenderFailed /\ Len(df) = 2
    /\ output.final_prompt = "Showing 2 facilities on the map. By use: 2 ACUTE."
    /\ output.visualizations[1].layout =
          "<div>Error rendering layout: malformed layout</div>"

\* C5: the query holds exactly one clause for each filter that is a dict
\* with dim and a non-empty list val, in filter order, and no clause for
\* any other filter (an empty value list included).
HasNonEmptyList(f) ==
    /\ IsDict(f)
    /\ "dim" \in DOMAIN f.dict
    /\ "val" \in DOMAIN f.dict
    /\ IsList(f.dict.val)
    /\ Len(f.dict.val.list) > 0

C5_OneClausePerNonEmptyFilter ==
    pc = "fetch" =>
        LET kept == SelectSeq(filters, HasNonEmptyList)
        IN  /\ Len(sql_query) = Len(kept)
            /\ \A k \in 1..Len(kept) :
                  k <= Len(sql_query) => sql_query[k].dim = kept[k].dict.dim

\* C6: every marker color is an entry of the palette of the requested
\* dimension (the building-use palette when color_by is not a known
\* dimension): the entry of the upper-cased value of the row for color_by
\* when the palette has it, the default entry otherwise.
KnownDimensions == {"building_use", "own_lease", "building_type", "state"}
PaletteOf(cb) ==
    IF cb \in KnownDimensions THEN color_maps[cb] ELSE color_maps["building_use"]
ValueFor(row, cb) ==
    IF Upper(cb) \in DOMAIN row THEN Upper(PyStr(row[Upper(cb)])) ELSE ""

C6_ColorInPalette ==
    \A i \in 1..Len(map_points) :
        LET palette == PaletteOf(color_by)
            value == ValueFor(df[i], color_by)
            color == map_points[i].color
        IN  /\ color \in {palette[key] : key \in DOMAIN palette}
            /\ color # ""
            /\ value \in DOMAIN palette \ {"default"} => color = palette[value]
            /\ value \notin DOMAIN palette \ {"default"} => color = palette["default"]

C6_Witness ==
    /\ pc = "series" /\ color_by = "state" /\ Len(map_points) = 2
    /\ df[1]["STATE"] = Str("nh") /\ map_points[1].color = "#10b981"
    /\ df[2]["STATE"] = Str("VT") /\ map_points[2].color = "#6b7280"

\* C7: the series partition the rows by BUILDING_USE: one series per
\* distinct value, labelled with it, in order of first appearance, holding
\* the rows of that value in fetch order; so every row is a point of
\* exactly one series.
SeriesBuilt == pc \in {"table", "render", "summary", "done"} /\ Len(map_points) > 0

RECURSIVE Ascending(_)
\* the members of a set of numbers as an increasing sequence
Ascending(S) ==
    IF S = {} THEN <<>>
    ELSE LET m == CHOOSE x \in S : \A y \in S : x <= y
         IN  <<m>> \o Ascending(S \ {m})

C7_SeriesPartition ==
    SeriesBuilt =>
        /\ Len(series_by_color) = Cardinality({Uses[i] : i \in 1..Len(df)})
        /\ Len(map_series_data) = Len(series_by_color)
        /\ \A k \in 1..Len(series_by_color) :
              LET s == series_by_color[k]
                  rows == Ascending(IndicesOf(s.name))
              IN  /\ Len(rows) > 0
                  /\ Len(s.data) = Len(rows)
                  /\ \A j \in 1..Len(rows) :
                        /\ s.data[j].name = df[rows[j]]["BUILDING_NAME"]
                        /\ s.data[j].building_use = s.name
                        /\ s.data[j].x = df[rows[j]]["LONGITUDE"].num
                        /\ s.data[j].y = df[rows[j]]["LATITUDE"].num
                  /\ map_series_data[k].name = s.name
                  /\ Len(map_series_data[k].data) = Len(rows)
                  /\ \A l \in 1..Len(series_by_color) :
                        k < l => FirstIndexOf(s.name) < FirstIndexOf(series_by_color[l].name)

C7_Witness ==
    /\ pc = "table" /\ Len(df) = 3
    /\ Uses = <<Str("Admin"), Str("ACUTE"), Str("Admin")>>
    /\ Len(series_by_color) = 2
    /\ series_by_color[1].name = Str("Admin") /\ Len(series_by_color[1].data) = 2
    /\ series_by_color[2].name = Str("ACUTE") /\ Len(series_by_color[2].data) = 1

\* C8: whenever one or more rows were fetched, the summary is "Showing N
\* facilities on the map. By use: ..." with N the number of rows, and the
\* breakdown lists every distinct BUILDING_USE value of the rows once with
\* its number of rows, counts non-increasing, so that the counts sum to N.
RECURSIVE SumCounts(_)
SumCounts(counts) ==
    IF Len(counts) = 0 THEN 0 ELSE Head(counts).count + SumCounts(Tail(counts))

C8_SummaryCountsEveryRow ==
    (Returned /\ fetched = "rows" /\ Len(df) > 0) =>
        /\ output.final_prompt =
              "Showing " \o ToString(Len(df)) \o " facilities on the map. By use: "
                \o UseSummary(use_counts) \o "."
        /\ {use_counts[k].use : k \in 1..Len(use_counts)} =
              {Uses[i] : i \in 1..Len(df)}
        /\ \A k, l \in 1..Len(use_counts) :
              /\ k # l => use_counts[k].use # use_counts[l].use
              /\ k < l => use_counts[k].count >= use_counts[l].count
        /\ \A k \in 1..Len(use_counts) :
              use_counts[k].count = Cardinality(IndicesOf(use_counts[k].use))
        /\ SumCounts(use_counts) = Len(df)

\* C9: the table has one row per fetched row, in fetch order; sq_ft is
\* "N/A" exactly when SQUARE_FEET is null and the thousands-separated
\* rendering of the number otherwise; row i (from 0) is emitted into the
\* layout with the even shade when i is even, the odd shade when i is odd.
TableBuilt == pc \in {"render", "summary", "done"} /\ Len(map_points) > 0

\* the renderings Python gives for the square footages of the rows
Rendering(n) ==
    CASE n = 0 -> "0"
      [] n = 950 -> "950"
      [] n = 12000 -> "12,000"
      [] n = 12345 -> "12,345"
      [] n = 1234567 -> "1,234,567"

C9_TableRows ==
    TableBuilt =>
        /\ Len(table_rows) = Len(df)
        /\ Len(layout_rows) = Len(df)
        /\ \A i \in 1..Len(df) :
              /\ table_rows[i].name = df[i]["BUILDING_NAME"]
              /\ table_rows[i].city = df[i]["CITY"]
              /\ table_rows[i].use = df[i]["BUILDING_USE"]
              /\ (table_rows[i].sq_ft = "N/A") <=> (df[i]["SQUARE_FEET"] = Null)
              /\ df[i]["SQUARE_FEET"] # Null =>
                    table_rows[i].sq_ft = Rendering(df[i]["SQUARE_FEET"].num)
              /\ layout_rows[i].cells = table_rows[i]
              /\ layout_rows[i].name = "TD_Name_" \o ToString(i - 1)
              /\ (i - 1) % 2 = 0 => layout_rows[i].backgroundColor = "#ffffff"
              /\ (i - 1) % 2 = 1 => layout_rows[i].backgroundColor = "#f8fafc"

C9_Witness ==
    /\ pc = "render" /\ Len(df) = 3
    /\ table_rows[1].sq_ft = "N/A"
    /\ table_rows[2].sq_ft = "12,000"
    /\ table_rows[3].sq_ft = "1,234,567"
    /\ layout_rows[2].backgroundColor = "#f8fafc"
    /\ layout_rows[3].backgroundColor = "#ffffff"

\* C10: a series is keyed by the BUILDING_USE value whatever color_by is,
\* and its color is the marker color of the first row, in fetch order, with
\* that value; with color_by = building_use it is the building-use palette
\* entry of the upper-cased label, or the default entry.
C10_SeriesColor ==
    SeriesBuilt =>
        \A k \in 1..Len(series_by_color) :
            LET s == series_by_color[k]
            IN  /\ s.name \in {Uses[i] : i \in 1..Len(df)}
                /\ s.color = map_points[FirstIndexOf(s.name)].color
                /\ map_series_data[k].color = s.color
                /\ color_by = "building_use" =>
                      s.color = DictGet(color_maps["building_use"],
                                        Upper(PyStr(s.name)), "#6b7280")

C10_Witness ==
    /\ pc = "table" /\ color_by = "state" /\ Len(df) = 2
    /\ Len(series_by_color) = 1
    /\ series_by_color[1].name = Str("ACUTE")
    /\ series_by_color[1].color = "#3b82f6"
    /\ map_points[2].color = "#10b981"

====
